---- MODULE Spec2Model ----
(***************************************************************************)
(* FinancialAdvisorBot (RAG/rag.py): the routing graph built by build_dag, *)
(* the history-aware retrieval chain built by get_chatbot, and the session *)
(* store they share.  One caller is one invocation of get_response; the    *)
(* provider calls (router LLM, chat LLM, Chroma index, Wikipedia) are the  *)
(* points where an invocation can fail or be interleaved with another.     *)
(***************************************************************************)
EXTENDS Integers, Sequences, FiniteSets, TLC

\* ---------------------------------------------------------------- bounds
MaxTurns == 3       \* get_response calls in one behaviour
MaxIndex == 5       \* passages the Chroma index may hold
MaxThreadedTurns == 2   \* get_response calls in one threaded behaviour

\* ------------------------------------------------------- program constants
K == 3              \* the k written at the as_retriever call
DEFAULT_K == 4      \* Chroma.similarity_search's k when search_kwargs has none

Callers   == {"c1", "c2"}
Questions == {"q1", "q2"}
Answers   == {"a1", "a2"}
Snippets  == {"w1"}
SessionId == "01"
SessionIds == {"01", "02"}   \* ids a direct get_session_history call may pass

RouteLabels == {"vectorstore", "wiki_search"}
\* what the router model may send back: a label of the schema, a label
\* outside it, or no reply at all (timeout, API error)
ClassifierOutputs == RouteLabels \cup {"other", "api_error"}

Min(a, b) == IF a < b THEN a ELSE b

HumanMessage(q) == [type |-> "human", content |-> q]
AIMessage(a)    == [type |-> "ai", content |-> a]

\* ----------------------------------------------------------- __init__
\* the keyword arguments of the as_retriever call
RetrieverKwargs == [search_type |-> "similarity", k |-> K]

\* VectorStore.as_retriever(**kwargs): the retriever keeps the fields it
\* declares (search_type, search_kwargs); any other keyword is dropped.
as_retriever(kwargs) ==
    [search_type   |-> IF "search_type" \in DOMAIN kwargs
                       THEN kwargs.search_type ELSE "similarity",
     search_kwargs |-> IF "search_kwargs" \in DOMAIN kwargs
                       THEN kwargs.search_kwargs ELSE <<>>]

retriever == as_retriever(RetrieverKwargs)

\* the number of passages a similarity search of this retriever asks for
EffectiveK(r) ==
    IF "k" \in DOMAIN r.search_kwargs THEN r.search_kwargs.k ELSE DEFAULT_K

\* the top-k passages (by rank) of an index holding n passages
similarity_search(n, k) == [i \in 1..Min(n, k) |-> i]

\* ------------------------------------------------- get_session_history
Transcript(st, sid) == IF sid \in DOMAIN st THEN st[sid] ELSE <<>>

get_session_history_only(st, sid) == (sid :> Transcript(st, sid))

get_session_history_reset(st, sid) ==
    [s \in DOMAIN st \cup {sid} |-> IF s = sid THEN <<>> ELSE st[s]]

get_session_history(st, sid) ==
    IF sid \in DOMAIN st THEN st ELSE st @@ (sid :> <<>>)

\* --------------------------------------------------------- get_chatbot
\* RunnableWithMessageHistory with history_messages_key set: the chain gets
\* the stored messages under chat_history, the question under input.
LoadHistoryWithInput(messages, q) == Append(messages, HumanMessage(q))

LoadHistory(messages, q) == messages

\* the messages saved when the wrapped chain ends: the input under
\* input_messages_key, then the output under output_messages_key; the save
\* is an on_end listener, so a chain that raises saves nothing.
HistoryWritesEager(q, a, ok) ==
    IF ok THEN <<HumanMessage(q), AIMessage(a)>> ELSE <<HumanMessage(q)>>

HistoryWritesSwapped(q, a, ok) ==
    IF ok THEN <<AIMessage(a), HumanMessage(q)>> ELSE <<>>

HistoryWritesWholeOutput(q, a, ok) ==
    IF ok THEN <<HumanMessage(q), AIMessage("output")>> ELSE <<>>

HistoryWrites(q, a, ok) ==
    IF ok THEN <<HumanMessage(q), AIMessage(a)>> ELSE <<>>

\* create_history_aware_retriever: with an empty chat_history the input goes
\* to the retriever as it is, without a call of the LLM.
NeedsReformulationNever(chat_history) == FALSE

NeedsReformulation(chat_history) == chat_history # <<>>

\* the standalone questions the LLM may produce for question q
Reformulations(q) == {q, "sq"}

\* ----------------------------------------------------- router_agent
\* llm_with_tool = router_llm.with_structured_output(RouteQuery): the reply
\* is parsed into the RouteQuery schema, whose datasource is one of the two
\* labels; a reply outside the schema, or no reply, raises.
llm_with_tool(raw) == IF raw \in RouteLabels THEN raw ELSE "Raised"

\* ---------------------------------------------------- route_question
route_question_noelif(source) ==
    IF source = "Raised" THEN "Raised"
    ELSE IF source = "wiki_search" THEN "wiki_search"
    ELSE "None"

route_question_default(source) ==
    IF source = "wiki_search" THEN "wiki_search" ELSE "vectorstore"

route_question(source) ==
    IF source = "Raised" THEN "Raised"                   \* chain.invoke raised
    ELSE IF source = "wiki_search" THEN "wiki_search"
    ELSE IF source = "vectorstore" THEN "vectorstore"
    ELSE "None"                                          \* falls off the end

\* ---------------------------------------------------------- build_dag
PathMapSwapped == [wiki_search |-> "retrieve", vectorstore |-> "web_search"]

PathMapNoWiki == [vectorstore |-> "retrieve"]

\* add_conditional_edges(START, route_question, {...})
PathMap == [wiki_search |-> "web_search", vectorstore |-> "retrieve"]

EdgesChained == [retrieve |-> "web_search", web_search |-> "END"]

\* add_edge("retrieve", END); add_edge("web_search", END)
Edges == [retrieve |-> "END", web_search |-> "END"]

\* -------------------------------------------------------------- state
VARIABLES
    store,          \* self.store: session id -> list of messages
    index,          \* passages held by the Chroma index under RAG/chroma
    pc,             \* where each caller's get_response stands
    question,       \* GraphState["question"] of the invocation
    documents,      \* GraphState["documents"] of the invocation
    route,          \* what route_question returned
    chat_history,   \* the messages handed to the chain as chat_history
    standalone,     \* the question handed to the retriever
    context,        \* the passages the retriever returned
    answer,         \* the chain's output under "answer"
    pending,        \* messages the on_end listener has still to add
    response,       \* what get_response returned
    failed,         \* the stage that raised, "none" while nothing did
    trace,          \* the steps the invocation has taken, in order
    preStore,       \* self.store when the invocation began
    turnNo,         \* the invocation's rank among the get_response calls
    turns,          \* get_response calls so far
    log             \* completed vectorstore turns, in completion order

vars == <<store, index, pc, question, documents, route, chat_history, standalone,
          context, answer, pending, response, failed, trace, preStore,
          turnNo, turns, log>>

Event(op, arg, hist) == [op |-> op, arg |-> arg, hist |-> hist]

Running(c) == pc[c] \notin {"idle", "done", "failed"}

Init ==
    /\ store = <<>>
    /\ index \in 0..MaxIndex
    /\ pc = [c \in Callers |-> "idle"]
    /\ question = [c \in Callers |-> "none"]
    /\ documents = [c \in Callers |-> "none"]
    /\ route = [c \in Callers |-> "unset"]
    /\ chat_history = [c \in Callers |-> <<>>]
    /\ standalone = [c \in Callers |-> "none"]
    /\ context = [c \in Callers |-> <<>>]
    /\ answer = [c \in Callers |-> "none"]
    /\ pending = [c \in Callers |-> <<>>]
    /\ response = [c \in Callers |-> "none"]
    /\ failed = [c \in Callers |-> "none"]
    /\ trace = [c \in Callers |-> <<>>]
    /\ preStore = [c \in Callers |-> <<>>]
    /\ turnNo = [c \in Callers |-> 0]
    /\ turns = 0
    /\ log = <<>>

\* an exception leaves the graph: get_response raises, nothing is returned
Raise(c, stage) ==
    /\ pc' = [pc EXCEPT ![c] = "failed"]
    /\ failed' = [failed EXCEPT ![c] = stage]

\* ------------------------------------------------------- get_response
\* inputs = {"question": user_query}; self.app.stream(inputs) starts at START
Begin(c, q, limit) ==
    /\ pc[c] = "idle"
    /\ turns < limit
    /\ turns' = turns + 1
    /\ turnNo' = [turnNo EXCEPT ![c] = turns + 1]
    /\ pc' = [pc EXCEPT ![c] = "START"]
    /\ question' = [question EXCEPT ![c] = q]
    /\ preStore' = [preStore EXCEPT ![c] = store]
    /\ UNCHANGED <<store, index, documents, route, chat_history, standalone,
                   context, answer, pending, response, failed, trace, log>>

\* a caller that awaits each get_response before it issues the next
GetResponse(c, q) ==
    /\ \A d \in Callers : pc[d] = "idle"
    /\ Begin(c, q, MaxTurns)

\* callers on separate threads: nothing in the class makes a call wait
GetResponseThreaded(c, q) == Begin(c, q, MaxThreadedTurns)

\* ----------------------------------------- START: the conditional edge
RouteQuestion(c) ==
    /\ pc[c] = "START"
    /\ \E raw \in ClassifierOutputs :
         LET r == route_question(llm_with_tool(raw)) IN
           /\ trace' = [trace EXCEPT
                          ![c] = @ \o <<Event("classify", raw, <<>>),
                                        Event("route_question", r, <<>>)>>]
           /\ IF r = "Raised"
              THEN /\ Raise(c, "routing")
                   /\ UNCHANGED route
              ELSE /\ route' = [route EXCEPT ![c] = r]
                   /\ IF r \in DOMAIN PathMap
                      THEN /\ pc' = [pc EXCEPT ![c] = PathMap[r]]
                           /\ UNCHANGED failed
                      ELSE Raise(c, "dispatch")      \* no such key in the map
    /\ UNCHANGED <<store, index, question, documents, chat_history, standalone,
                   context, answer, pending, response, preStore, turnNo,
                   turns, log>>

\* ----------------------------------------------------------- web_search
WebSearch(c) ==
    /\ pc[c] = "web_search"
    /\ \E docs \in Snippets \cup {"Raised"} :
         /\ trace' = [trace EXCEPT
                        ![c] = Append(@, Event("web_search", question[c], <<>>))]
         /\ IF docs = "Raised"
            THEN /\ Raise(c, "search")
                 /\ UNCHANGED documents
            ELSE /\ documents' = [documents EXCEPT ![c] = docs]
                 /\ pc' = [pc EXCEPT ![c] = Edges["web_search"]]
                 /\ UNCHANGED failed
    /\ UNCHANGED <<store, index, question, route, chat_history, standalone, context,
                   answer, pending, response, preStore, turnNo, turns, log>>

\* ------------------------------------------------------------- retrieve
session_id_per_caller(c) == c

\* config={"configurable": {"session_id": "01"}}: the same id in every call
session_id(c) == SessionId

\* self.chatbot.invoke({"input": question}, session_id "01"): the wrapper
\* looks the session up (creating it) and copies its messages
RetrieveEnter(c) ==
    /\ pc[c] = "retrieve"
    /\ LET st == get_session_history(store, session_id(c)) IN
         /\ store' = st
         /\ chat_history' = [chat_history EXCEPT
                               ![c] = LoadHistory(st[session_id(c)], question[c])]
    /\ trace' = [trace EXCEPT
                   ![c] = Append(@, Event("retrieve", question[c], <<>>))]
    /\ pc' = [pc EXCEPT ![c] = "history_aware_retriever"]
    /\ UNCHANGED <<index, question, documents, route, standalone, context, answer,
                   pending, response, failed, preStore, turnNo, turns, log>>

\* a stage of the chain raised: the listener saves what HistoryWrites says
\* a failed run saves
ChainRaise(c, stage) ==
    /\ Raise(c, stage)
    /\ store' = [store EXCEPT
                   ![session_id(c)] = @ \o HistoryWrites(question[c], "none", FALSE)]

\* history_aware_retriever, first half: contextualized_q_prompt | llm
Reformulate(c) ==
    /\ pc[c] = "history_aware_retriever"
    /\ IF NeedsReformulation(chat_history[c])
       THEN \E out \in Reformulations(question[c]) \cup {"Raised"} :
              /\ trace' = [trace EXCEPT
                             ![c] = Append(@, Event("reformulate", out,
                                                    chat_history[c]))]
              /\ IF out = "Raised"
                 THEN /\ ChainRaise(c, "reformulation")
                      /\ UNCHANGED standalone
                 ELSE /\ standalone' = [standalone EXCEPT ![c] = out]
                      /\ pc' = [pc EXCEPT ![c] = "retriever"]
                      /\ UNCHANGED <<failed, store>>
       ELSE /\ standalone' = [standalone EXCEPT ![c] = question[c]]
            /\ pc' = [pc EXCEPT ![c] = "retriever"]
            /\ UNCHANGED <<failed, store, trace>>
    /\ UNCHANGED <<index, question, documents, route, chat_history, context, answer,
                   pending, response, preStore, turnNo, turns, log>>

\* history_aware_retriever, second half: self.retriever on the standalone
\* question, against the index
Retrieve(c) ==
    /\ pc[c] = "retriever"
    /\ \E ok \in BOOLEAN :
         /\ trace' = [trace EXCEPT
                        ![c] = Append(@, Event("retriever", standalone[c], <<>>))]
         /\ IF ok
            THEN /\ context' = [context EXCEPT
                        ![c] = similarity_search(index, EffectiveK(retriever))]
                 /\ pc' = [pc EXCEPT ![c] = "qa_chain"]
                 /\ UNCHANGED <<failed, store>>
            ELSE /\ ChainRaise(c, "retrieval")
                 /\ UNCHANGED context
    /\ UNCHANGED <<index, question, documents, route, chat_history, standalone,
                   answer, pending, response, preStore, turnNo, turns, log>>

\* qa_chain: qa_prompt (context, chat_history, input) | llm
Synthesize(c) ==
    /\ pc[c] = "qa_chain"
    /\ \E out \in Answers \cup {"Raised"} :
         /\ trace' = [trace EXCEPT
                        ![c] = Append(@, Event("synthesize", out,
                                               chat_history[c]))]
         /\ IF out = "Raised"
            THEN /\ ChainRaise(c, "synthesis")
                 /\ UNCHANGED <<answer, pending>>
            ELSE /\ answer' = [answer EXCEPT ![c] = out]
                 /\ pending' = [pending EXCEPT
                                  ![c] = HistoryWrites(question[c], out, TRUE)]
                 /\ pc' = [pc EXCEPT ![c] = "add_messages"]
                 /\ UNCHANGED <<failed, store>>
    /\ UNCHANGED <<index, question, documents, route, chat_history, standalone,
                   context, response, preStore, turnNo, turns, log>>

\* the on_end listener adds the saved messages one add_message at a time;
\* after the last one chatbot.invoke returns and retrieve returns
\* {"documents": answer, "question": question}
AddMessage(c) ==
    /\ pc[c] = "add_messages"
    /\ pending[c] # <<>>
    /\ trace' = [trace EXCEPT
                   ![c] = Append(@, Event("add_message", Head(pending[c]).content,
                                          store[session_id(c)]))]
    /\ store' = [store EXCEPT ![session_id(c)] = Append(@, Head(pending[c]))]
    /\ pending' = [pending EXCEPT ![c] = Tail(@)]
    /\ IF Tail(pending[c]) = <<>>
       THEN /\ documents' = [documents EXCEPT ![c] = answer[c]]
            /\ pc' = [pc EXCEPT ![c] = Edges["retrieve"]]
            /\ log' = Append(log, [turn |-> turnNo[c], user |-> question[c],
                                   assistant |-> answer[c]])
       ELSE UNCHANGED <<documents, pc, log>>
    /\ UNCHANGED <<index, question, route, chat_history, standalone, context, answer,
                   response, failed, preStore, turnNo, turns>>

\* -------------------------------------------------------------------- END
\* the stream is exhausted; response holds the last node's documents
Return(c) ==
    /\ pc[c] = "END"
    /\ response' = [response EXCEPT ![c] = documents[c]]
    /\ pc' = [pc EXCEPT ![c] = "done"]
    /\ UNCHANGED <<store, index, question, documents, route, chat_history, standalone,
                   context, answer, pending, failed, trace, preStore, turnNo,
                   turns, log>>

\* the caller has its result (or its exception); the invocation's frame is
\* gone and the caller may call again
Release(c) ==
    /\ pc[c] \in {"done", "failed"}
    /\ pc' = [pc EXCEPT ![c] = "idle"]
    /\ question' = [question EXCEPT ![c] = "none"]
    /\ documents' = [documents EXCEPT ![c] = "none"]
    /\ route' = [route EXCEPT ![c] = "unset"]
    /\ chat_history' = [chat_history EXCEPT ![c] = <<>>]
    /\ standalone' = [standalone EXCEPT ![c] = "none"]
    /\ context' = [context EXCEPT ![c] = <<>>]
    /\ answer' = [answer EXCEPT ![c] = "none"]
    /\ pending' = [pending EXCEPT ![c] = <<>>]
    /\ response' = [response EXCEPT ![c] = "none"]
    /\ failed' = [failed EXCEPT ![c] = "none"]
    /\ trace' = [trace EXCEPT ![c] = <<>>]
    /\ preStore' = [preStore EXCEPT ![c] = <<>>]
    /\ turnNo' = [turnNo EXCEPT ![c] = 0]
    /\ UNCHANGED <<store, index, turns, log>>

\* ---------------------------------------------------------- specifications
Step(c) ==
    \/ RouteQuestion(c)
    \/ WebSearch(c)
    \/ RetrieveEnter(c)
    \/ Reformulate(c)
    \/ Retrieve(c)
    \/ Synthesize(c)
    \/ AddMessage(c)
    \/ Return(c)
    \/ Release(c)

Next ==
    \/ \E c \in Callers, q \in Questions : GetResponse(c, q)
    \/ \E c \in Callers : Step(c)

Spec == Init /\ [][Next]_vars

\* every started invocation keeps running: each provider call ends
SpecLive == Spec /\ \A c \in Callers : WF_vars(Step(c))

\* get_session_history called on its own, with any session id
LookupSession(sid) ==
    /\ store' = get_session_history(store, sid)
    /\ UNCHANGED <<index, pc, question, documents, route, chat_history,
                   standalone, context, answer, pending, response, failed,
                   trace, preStore, turnNo, turns, log>>

NextStore ==
    \/ Next
    \/ \E sid \in SessionIds : LookupSession(sid)

SpecStore == Init /\ [][NextStore]_vars

NextThreaded ==
    \/ \E c \in Callers, q \in Questions : GetResponseThreaded(c, q)
    \/ \E c \in Callers : Step(c)

SpecThreaded == Init /\ [][NextThreaded]_vars

\* ------------------------------------------------------------ properties
Ops(c, ops) == SelectSeq(trace[c], LAMBDA e : e.op \in ops)

\* the branch nodes the invocation has entered, in order
Executed(c) == Ops(c, {"web_search", "retrieve"})

\* the transcript of session "01" when the invocation began
Before(c) == Transcript(preStore[c], SessionId)

RECURSIVE Flatten(_)
Flatten(l) ==
    IF l = <<>> THEN <<>>
    ELSE <<HumanMessage(l[1].user), AIMessage(l[1].assistant)>>
         \o Flatten(Tail(l))

\* C1: in every invocation at most one of the branch nodes web_search and
\* retrieve is entered, and an invocation that has reached END (or returned)
\* has entered exactly one.
C1_ExactlyOneBranch ==
    \A c \in Callers :
        /\ Len(Executed(c)) <= 1
        /\ pc[c] \in {"END", "done"} => Len(Executed(c)) = 1

C1_Witness ==
    \E c \in Callers :
        /\ pc[c] = "done" /\ route[c] = "vectorstore"
        /\ Executed(c) = <<Event("retrieve", question[c], <<>>)>>

\* C2: whenever no append is under way, the transcript of session "01" is
\* the (user, assistant) pairs of the N completed vectorstore turns, in the
\* order the turns were issued, so its length is 2N.
C2_TranscriptIsTurns ==
    (\A c \in Callers : pc[c] # "add_messages") =>
        /\ Len(Transcript(store, SessionId)) = 2 * Len(log)
        /\ Transcript(store, SessionId) = Flatten(log)
        /\ \A i, j \in DOMAIN log : i < j => log[i].turn < log[j].turn

C2_Witness ==
    /\ Len(log) = 2
    /\ log[1].user # log[2].user
    /\ \A c \in Callers : pc[c] = "idle"

\* C3: after a vectorstore turn in which reformulation, retrieval or
\* synthesis raised, the transcript of session "01" is the transcript the
\* turn began with.
C3_FailedTurnAppendsNothing ==
    \A c \in Callers :
        (pc[c] = "failed"
           /\ failed[c] \in {"reformulation", "retrieval", "synthesis"})
        => Transcript(store, SessionId) = Before(c)

C3_Witness ==
    \E c \in Callers :
        /\ pc[c] = "failed" /\ failed[c] = "reformulation"
        /\ Len(Before(c)) = 2

\* C4: from the moment route_question returns wiki_search, the invocation
\* never enters retrieve or any stage of the chain, and the session store
\* (its session ids and their transcripts) stays what it was at the start.
C4_WikiLeavesStore ==
    \A c \in Callers :
        route[c] = "wiki_search" =>
            /\ store = preStore[c]
            /\ Ops(c, {"retrieve", "reformulate", "retriever", "synthesize",
                       "add_message"}) = <<>>

C4_Witness ==
    \E c \in Callers :
        /\ pc[c] = "done" /\ route[c] = "wiki_search"
        /\ response[c] \in Snippets
        /\ Len(Transcript(store, SessionId)) = 2

\* C5: the chat history that reformulation and synthesis read is the
\* transcript as it stood when the turn began, and no add_message of the
\* turn comes before either read.
C5_ReadsPrecedeAppend ==
    \A c \in Callers : \A i \in DOMAIN trace[c] :
        trace[c][i].op \in {"reformulate", "synthesize"} =>
            /\ trace[c][i].hist = Before(c)
            /\ \A j \in 1..i : trace[c][j].op # "add_message"

C5_Witness ==
    \E c \in Callers :
        /\ pc[c] = "done"
        /\ Len(Ops(c, {"reformulate"})) = 1
        /\ Len(Ops(c, {"synthesize"})) = 1
        /\ Len(Ops(c, {"add_message"})) = 2
        /\ Len(Before(c)) = 2

BadClassification(c) ==
    \E i \in DOMAIN trace[c] :
        trace[c][i].op = "classify" /\ trace[c][i].arg \notin RouteLabels

\* C7: once the classification call has failed or has sent back a value that
\* is neither label, the invocation has failed: no route was taken, neither
\* branch node was entered, the session store is what it was at the start,
\* and get_response has returned nothing.
C7_RoutingFailureIsFatal ==
    \A c \in Callers :
        BadClassification(c)
        => /\ pc[c] = "failed"
           /\ failed[c] \in {"routing", "dispatch"}
           /\ route[c] \notin RouteLabels
           /\ Executed(c) = <<>>
           /\ store = preStore[c]
           /\ response[c] = "none"

C7_Witness ==
    \E c \in Callers :
        /\ pc[c] = "failed"
        /\ Ops(c, {"classify"}) = <<Event("classify", "other", <<>>)>>
        /\ Len(Transcript(store, SessionId)) = 2

\* an invocation between its read of the transcript and the end of its
\* append
InTurn(c) ==
    pc[c] \in {"history_aware_retriever", "retriever", "qa_chain",
               "add_messages"}

\* C8: vectorstore turns on session "01" are serialized: no invocation is
\* between its transcript read and the end of its append while another is.
C8_TurnsSerialized ==
    \A c, d \in Callers : c # d => ~(InTurn(c) /\ InTurn(d))

\* C9: the retriever returns at most K = 3 passages.
C9_AtMostKPassages ==
    \A c \in Callers : Len(context[c]) <= K

\* a provider call of the invocation did not return what it was asked for:
\* it raised, or the classifier sent back no label (the graph's own dispatch
\* is no provider)
ProviderFailed(c) ==
    failed[c] \notin {"none", "dispatch"} \/ BadClassification(c)

\* C10: in every invocation route_question is evaluated at most once and
\* exactly once before END, no branch node or chain stage runs twice, and an
\* invocation that has started reaches END unless a provider call raised.
C10_SinglePass ==
    /\ [](\A c \in Callers :
            /\ Len(Ops(c, {"route_question"})) <= 1
            /\ pc[c] \in {"END", "done"} => Len(Ops(c, {"route_question"})) = 1
            /\ \A op \in {"web_search", "retrieve", "reformulate", "retriever",
                          "synthesize"} : Len(Ops(c, {op})) <= 1)
    /\ \A c \in Callers :
          (pc[c] = "START") ~> (pc[c] = "END" \/ ProviderFailed(c))

C10_Witness ==
    \E c \in Callers :
        /\ pc[c] = "END"
        /\ Len(trace[c]) = 8
        /\ turns = MaxTurns

\* the chain stages the invocation has run, in order
Stages(c) == Ops(c, {"reformulate", "retriever", "synthesize"})

StageNames(c) == [i \in DOMAIN Stages(c) |-> Stages(c)[i].op]

IsPrefix(s, t) == Len(s) <= Len(t) /\ s = SubSeq(t, 1, Len(s))

\* C11 as stated: every call of the retriever comes right after a
\* reformulation whose output is the retriever's question, and the stages
\* run in the order reformulate, retriever, synthesize, whatever the
\* transcript holds.
C11_ReformulateAlways ==
    \A c \in Callers :
        IsPrefix(StageNames(c), <<"reformulate", "retriever", "synthesize">>)

\* C11 amended: with a transcript that is not empty the stages run in the
\* order reformulate, retriever, synthesize, each once, the reformulation
\* reads the transcript and the raw question, and the retriever gets its
\* output; with an empty transcript there is no reformulation, the stages
\* are retriever, synthesize, and the retriever gets the raw question.
C11_StagesInOrder ==
    \A c \in Callers :
        /\ IsPrefix(StageNames(c),
                    IF Before(c) # <<>>
                    THEN <<"reformulate", "retriever", "synthesize">>
                    ELSE <<"retriever", "synthesize">>)
        /\ \A i \in DOMAIN Stages(c) :
             /\ Stages(c)[i].op = "reformulate" =>
                  /\ Stages(c)[i].hist = Before(c)
                  /\ Stages(c)[i].arg \in
                         Reformulations(question[c]) \cup {"Raised"}
             /\ Stages(c)[i].op = "retriever" =>
                  Stages(c)[i].arg = IF Before(c) # <<>>
                                     THEN Stages(c)[i - 1].arg
                                     ELSE question[c]

C11_Witness ==
    \E c \in Callers :
        /\ pc[c] = "done"
        /\ Before(c) # <<>>
        /\ StageNames(c) = <<"reformulate", "retriever", "synthesize">>
        /\ Stages(c)[2].arg = "sq"

\* C12: when a vectorstore turn has returned, the last two entries of the
\* transcript of session "01" are a user entry holding the raw question
\* given to get_response and an assistant entry holding the string that
\* get_response returned.
C12_LastPairIsTurn ==
    \A c \in Callers :
        (pc[c] = "done" /\ route[c] = "vectorstore") =>
            LET t == Transcript(store, SessionId) IN
              /\ Len(t) >= 2
              /\ t[Len(t) - 1] = HumanMessage(question[c])
              /\ t[Len(t)] = AIMessage(response[c])

C12_Witness ==
    \E c \in Callers :
        /\ pc[c] = "done" /\ route[c] = "vectorstore"
        /\ standalone[c] = "sq"
        /\ response[c] \in Answers
        /\ Len(Transcript(store, SessionId)) = 4

\* C13: every step keeps every session and extends its transcript at the
\* end only: the transcript before the step is a prefix of the transcript
\* after it, so a transcript read later holds the earlier entries, in order.
C13_AppendOnly ==
    [][\A sid \in DOMAIN store :
          /\ sid \in DOMAIN store'
          /\ IsPrefix(store[sid], store'[sid])]_vars

C13_Witness ==
    \E c \in Callers :
        /\ pc[c] = "failed" /\ failed[c] = "synthesis"
        /\ Len(Transcript(store, SessionId)) = 4
        /\ turns = MaxTurns

\* C14: get_session_history adds an unseen session id with an empty
\* transcript, gives back the store as it is for a known id (so a second
\* call changes nothing), leaves every other session's transcript alone,
\* and no step of the program removes a session id from the store.
C14_GetOrCreate ==
    /\ [](\A sid \in SessionIds :
            LET st2 == get_session_history(store, sid) IN
              /\ sid \notin DOMAIN store =>
                   /\ DOMAIN st2 = DOMAIN store \cup {sid}
                   /\ st2[sid] = <<>>
              /\ sid \in DOMAIN store => st2 = store
              /\ get_session_history(st2, sid) = st2
              /\ \A o \in DOMAIN store \ {sid} :
                   o \in DOMAIN st2 /\ st2[o] = store[o])
    /\ [][DOMAIN store \subseteq DOMAIN store']_vars

C14_Witness ==
    /\ DOMAIN store = SessionIds
    /\ Len(store[SessionId]) = 4
    /\ store["02"] = <<>>

\* the vectorstore turns completed before the invocation was issued
LogBefore(c) == SelectSeq(log, LAMBDA r : r.turn < turnNo[c])

\* C15: the session store never holds a session id other than "01", and
\* the chat history a vectorstore turn loads, and its reformulation reads, is
\* the user/assistant pairs of every vectorstore turn completed before it.
C15_SingleSession ==
    /\ DOMAIN store \subseteq {"01"}
    /\ \A c \in Callers :
         /\ Ops(c, {"retrieve"}) # <<>> =>
              /\ "01" \in DOMAIN store
              /\ chat_history[c] = Flatten(LogBefore(c))
         /\ \A i \in DOMAIN trace[c] :
              trace[c][i].op = "reformulate" =>
                  trace[c][i].hist = Flatten(LogBefore(c))

C15_Witness ==
    \E c \in Callers :
        /\ pc[c] = "done"
        /\ DOMAIN store = {"01"}
        /\ Len(LogBefore(c)) = 2
        /\ Ops(c, {"reformulate"}) # <<>>
        /\ Len(store["01"]) = 6

====
